---- MODULE Spec2Model ----
(***************************************************************************)
(* Pipeline execution engine (src/src/core/pipeline.py) and its error      *)
(* recovery subsystem (src/src/core/pipeline_error_handlers.py).           *)
(***************************************************************************)
EXTENDS Integers, Sequences, FiniteSets, TLC

\* ------------------------------------------------------------------ bounds
MaxRetries == 2
MaxClock == 1
MaxRuns == 2
MaxAttempt == 4
MaxHandlers == 3
MaxWrites == 3
MaxTime == 6

\* ------------------------------------------------------------ value domain
\* Python's None
None == "None"
\* payloads handed to execute / produced by stages
Data == {"D1", "D2"}
\* the fixed result_data of a MockStage
MockResultData == "R"
\* exception objects raised by stages (Exception subclasses)
StageErrors == {"ConnErr", "ValErr"}
\* AttributeError objects raised when a duck-typed stage has no handle_error
AttrErr1 == "AttrErr1"
AttrErr2 == "AttrErr2"
\* fail_times of a stage that fails on every attempt (attempt saturates there)
Forever == MaxAttempt

\* Python values a stage input can be, beside None and the payloads above
\* (strings and string-keyed dictionaries of strings and numbers): a tuple and
\* the list of the same items, a dictionary with integer keys and the one with
\* the same keys as strings, and an object json cannot serialize (a Path)
TupleD == "TupleD"
ListD == "ListD"
IntKeyDict == "IntKeyDict"
StrKeyDict == "StrKeyDict"
PathD == "PathD"
\* the empty dictionary {} as a value
PyEmptyDict == "{}"

\* the classes of the exception objects and Python's exception hierarchy
ErrorClass(e) ==
  CASE e = "ConnErr" -> "ConnectionError"
    [] e = "ConnResetErr" -> "ConnectionResetError"
    [] e = "TimeoutErr" -> "TimeoutError"
    [] e = "OSErr" -> "OSError"
    [] e = "ValErr" -> "ValueError"
    [] e \in {"AttrErr1", "AttrErr2"} -> "AttributeError"
    [] OTHER -> "Exception"

Base(cls) ==
  CASE cls = "ConnectionResetError" -> "ConnectionError"
    [] cls \in {"ConnectionError", "TimeoutError"} -> "OSError"
    [] OTHER -> "Exception"

RECURSIVE Mro(_)
Mro(cls) == IF cls = "Exception" THEN {cls} ELSE {cls} \cup Mro(Base(cls))

isinstance(e, classes) == Mro(ErrorClass(e)) \cap classes # {}

\* str(error): the message the exception was constructed with
str(e) == IF e = "ConnErr" THEN "Simulated failure" ELSE ""

\* json.dumps of one value and json.loads of its text.  A tuple is written as
\* an array and a dictionary's keys are written as strings.
JsonSerializable(v) == v # PathD

\* mutant: strings are written as null
JsonEncode_null(v) ==
  CASE v \in {TupleD, ListD} -> [j |-> "array", v |-> "D"]
    [] v \in {IntKeyDict, StrKeyDict} -> [j |-> "object", v |-> "D"]
    [] OTHER -> [j |-> "null", v |-> None]

JsonEncode(v) ==
  CASE v = None -> [j |-> "null", v |-> None]
    [] v \in {TupleD, ListD} -> [j |-> "array", v |-> "D"]
    [] v \in {IntKeyDict, StrKeyDict} -> [j |-> "object", v |-> "D"]
    [] OTHER -> [j |-> "faithful", v |-> v]

JsonDecode(t) ==
  CASE t.j = "null" -> None
    [] t.j = "array" -> ListD
    [] t.j = "object" -> StrKeyDict
    [] OTHER -> t.v

\* json.dumps / json.loads of a dictionary of such values
json_dumps(d) ==
  IF \E f \in DOMAIN d : ~JsonSerializable(d[f])
  THEN [exc |-> TRUE, text |-> [f \in {} |-> None]]
  ELSE [exc |-> FALSE, text |-> [f \in DOMAIN d |-> JsonEncode(d[f])]]

json_loads(text) == [f \in DOMAIN text |-> JsonDecode(text[f])]

\* ---------------------------------------------------------------- dicts
EmptyDict == [x \in {} |-> None]
DictGet(d, k, default) == IF k \in DOMAIN d THEN d[k] ELSE default
DictSet(d, k, v) == [x \in (DOMAIN d) \cup {k} |-> IF x = k THEN v ELSE d[x]]

\* list.remove(e): drops the first element equal to e
RECURSIVE ListRemove(_, _)
ListRemove(s, e) ==
  IF s = <<>> THEN <<>>
  ELSE IF Head(s) = e THEN Tail(s)
  ELSE <<Head(s)>> \o ListRemove(Tail(s), e)

ListContains(s, e) == \E i \in 1..Len(s) : s[i] = e

Min(a, b) == IF a < b THEN a ELSE b

\* the one element of a singleton set; {F(x) : x \in {e}} evaluates e once
The(S) == CHOOSE y \in S : TRUE

\* ------------------------------------------------------- PipelineContext
PipelineContext == [data |-> EmptyDict, errors |-> <<>>]
set_data(c, key, value) == [c EXCEPT !.data = DictSet(@, key, value)]
get_data(c, key, default) == DictGet(c.data, key, default)
\* mutant: reading takes the key out (dict.pop)
PipelineContext_get_data_pop(c, key, default) ==
  [c |-> [c EXCEPT !.data = [x \in (DOMAIN @) \ {key} |-> @[x]]],
   ret |-> DictGet(c.data, key, default)]

\* get_data as a call: the context it leaves and the value it returns
PipelineContext_get_data(c, key, default) == [c |-> c, ret |-> get_data(c, key, default)]

\* mutant: the error is not recorded
add_error_dropped(c, error) == c
add_error(c, error) == [c EXCEPT !.errors = Append(@, error)]

\* PipelineFactory._apply_configuration: the keys of config that are present are
\* echoed into the pipeline's context, "theme" under the name "theme_name"
ConfigKey(k) == IF k = "theme" THEN "theme_name" ELSE k

RECURSIVE SetEach(_, _, _)
SetEach(c, config, keys) ==
  IF keys = <<>> THEN c
  ELSE SetEach(IF Head(keys) \in DOMAIN config
               THEN set_data(c, ConfigKey(Head(keys)), config[Head(keys)])
               ELSE c,
               config, Tail(keys))

apply_configuration(c, config) ==
  SetEach(c, config, <<"theme", "output_format", "max_retries", "checkpoints_enabled",
                       "fallback_templates_enabled">>)

\* the config of test_pipeline_factory_error_handling, and a partial one
TestConfig ==
  [k \in {"theme", "output_format", "max_retries", "checkpoints_enabled",
          "fallback_templates_enabled"} |->
     CASE k = "theme" -> "modern"
       [] k = "output_format" -> "pptx"
       [] k = "max_retries" -> "3"
       [] OTHER -> "True"]

Configs == {TestConfig, [k \in {"theme"} |-> "modern"]}

\* ------------------------------------------------------------ StageResult
COMPLETED == "COMPLETED"
FAILED == "FAILED"
StageResult(status, data, error) == [status |-> status, data |-> data, error |-> error]
NoResult == StageResult("NOT_STARTED", None, None)

\* ------------------------------------------------------ recovery strategies
\* A strategy is a record; w is the mutable world a strategy can touch:
\*   w.ctx    the PipelineContext
\*   w.retry  per strategy position, the RetryStrategy._retry_counts dict
\*   w.files  the checkpoint directory: timestamp -> checkpoint contents
Retry(n) == [kind |-> "Retry", max_retries |-> n]
AutoSave == [kind |-> "AutoSave"]
Fallback == [kind |-> "Fallback"]
Mock(can, rec) == [kind |-> "Mock", can |-> can, rec |-> rec]

Ret(w, ret) == [w |-> w, ret |-> ret, exc |-> FALSE]
Raise(w) == [w |-> w, ret |-> None, exc |-> TRUE]

\* mutant: off by one in the budget test
RetryStrategy_can_recover_inclusive(s, i, error, w) ==
  LET stage_name == get_data(w.ctx, "current_stage_name", None)
      current_retries == DictGet(w.retry[i], stage_name, 0)
  IN  Ret(w, current_retries <= s.max_retries)

RetryStrategy_can_recover(s, i, error, w) ==
  LET stage_name == get_data(w.ctx, "current_stage_name", None)
      current_retries == DictGet(w.retry[i], stage_name, 0)
  IN  Ret(w, current_retries < s.max_retries)

\* mutant: without input data the attempt is not counted
RetryStrategy_recover_uncounted_null(s, i, error, w) ==
  LET stage_name == get_data(w.ctx, "current_stage_name", None)
      current_retries == DictGet(w.retry[i], stage_name, 0)
      counted == [w EXCEPT !.retry[i] = DictSet(@, stage_name, current_retries + 1)]
      input_data == get_data(w.ctx, "stage_input_data", None)
  IN  IF input_data = None
      THEN Ret(w, None)
      ELSE Ret([counted EXCEPT !.ctx =
                  set_data(set_data(@, "retry_attempt", current_retries + 1),
                           "recovery_strategy", "RetryStrategy")],
               input_data)

RetryStrategy_recover(s, i, error, w) ==
  LET stage_name == get_data(w.ctx, "current_stage_name", None)
      current_retries == DictGet(w.retry[i], stage_name, 0)
      counted == [w EXCEPT !.retry[i] = DictSet(@, stage_name, current_retries + 1)]
      input_data == get_data(w.ctx, "stage_input_data", None)
  IN  IF input_data = None
      THEN Ret(counted, None)
      ELSE Ret([counted EXCEPT !.ctx =
                  set_data(set_data(@, "retry_attempt", current_retries + 1),
                           "recovery_strategy", "RetryStrategy")],
               input_data)

AutoSaveStrategy_can_recover(s, i, error, w) == Ret(w, TRUE)

\* mutant: the checkpoint is written but nothing is handed back
AutoSaveStrategy_recover_none(s, i, error, w, now) ==
  Ret([w EXCEPT !.files = DictSet(@, now, [stage_name |-> None])], None)

\* the file is named after the second it is written in
AutoSaveStrategy_recover(s, i, error, w, now) ==
  LET checkpoint_data ==
        [stage_name |-> get_data(w.ctx, "current_stage_name", None),
         input_data |-> get_data(w.ctx, "stage_input_data", None),
         partial_results |-> get_data(w.ctx, "partial_results", PyEmptyDict),
         error |-> str(error),
         timestamp |-> ToString(now)]
      dumped == json_dumps(checkpoint_data)
  IN  IF dumped.exc THEN Raise(w)
      ELSE Ret([w EXCEPT !.files = DictSet(@, now, dumped.text)],
               get_data(w.ctx, "stage_input_data", None))

\* the templates in fallback_templates_dir, by file stem, and their parsed contents
FallbackTemplates == {"test_presentation"}
TemplateContent(stem) == "FallbackSlides"

\* topic.lower().replace(' ', '_')
lower_underscore(topic) ==
  CASE topic \in {"Test Presentation", "test presentation"} -> "test_presentation"
    [] topic = "Other Topic" -> "other_topic"
    [] OTHER -> topic

\* mutant: the stage name is not looked at
FallbackContentStrategy_can_recover_any_stage(s, i, error, w) ==
  Ret(w, isinstance(error, {"ConnectionError", "TimeoutError"}))

FallbackContentStrategy_can_recover(s, i, error, w) ==
  Ret(w, /\ isinstance(error, {"ConnectionError", "TimeoutError"})
         /\ get_data(w.ctx, "current_stage_name", None) = "Content Generation")

FallbackContentStrategy_recover(s, i, error, w) ==
  LET topic == get_data(w.ctx, "topic", None)
  IN  IF topic = None
      THEN Raise(w)  \* None has no attribute lower
      ELSE IF lower_underscore(topic) \in FallbackTemplates
           THEN Ret(w, TemplateContent(lower_underscore(topic)))
           ELSE Ret(w, None)

\* unittest.mock strategies: can_recover / recover return a fixed value or raise
MockStrategy_can_recover(s, i, error, w) ==
  IF s.can = "raise" THEN Raise(w) ELSE Ret(w, s.can = "yes")

MockStrategy_recover(s, i, error, w) ==
  IF s.rec = "raise" THEN Raise(w) ELSE Ret(w, s.rec)

can_recover(s, i, error, w) ==
  CASE s.kind = "Retry" -> RetryStrategy_can_recover(s, i, error, w)
    [] s.kind = "AutoSave" -> AutoSaveStrategy_can_recover(s, i, error, w)
    [] s.kind = "Mock" -> MockStrategy_can_recover(s, i, error, w)
    [] s.kind = "Fallback" -> FallbackContentStrategy_can_recover(s, i, error, w)

recover(s, i, error, w, now) ==
  CASE s.kind = "Retry" -> RetryStrategy_recover(s, i, error, w)
    [] s.kind = "AutoSave" -> AutoSaveStrategy_recover(s, i, error, w, now)
    [] s.kind = "Mock" -> MockStrategy_recover(s, i, error, w)
    [] s.kind = "Fallback" -> FallbackContentStrategy_recover(s, i, error, w)

\* ------------------------------------------------- ErrorHandler (coordinator)
\* acc.w the world so far, acc.recovery_result the result kept so far,
\* acc.can / acc.rec the positions whose can_recover returned true / whose
\* recover was called (what unittest.mock's assert_called observes).

\* mutant: a later non-null result overwrites an earlier one
KeepLast(acc, error, r) ==
  IF r.ret # None
  THEN [acc EXCEPT !.recovery_result = r.ret,
                   !.w = [r.w EXCEPT !.ctx.errors =
                            IF acc.recovery_result = None /\ ListContains(@, error)
                            THEN ListRemove(@, error) ELSE @]]
  ELSE [acc EXCEPT !.w = r.w]

\* mutant: the error is removed for every strategy that recovers
KeepFirstRemoveEach(acc, error, r) ==
  IF r.ret # None
  THEN [acc EXCEPT !.recovery_result = IF @ = None THEN r.ret ELSE @,
                   !.w = [r.w EXCEPT !.ctx.errors =
                            IF ListContains(@, error) THEN ListRemove(@, error) ELSE @]]
  ELSE [acc EXCEPT !.w = r.w]

\* lines 150-157: keep the first non-null result and remove the error once
KeepFirst(acc, error, r) ==
  IF r.ret # None /\ acc.recovery_result = None
  THEN [acc EXCEPT !.recovery_result = r.ret,
                   !.w = [r.w EXCEPT !.ctx.errors =
                            IF ListContains(@, error) THEN ListRemove(@, error) ELSE @]]
  ELSE [acc EXCEPT !.w = r.w]

\* mutant: what a strategy throws leaves handle_error
StrategyRaised_escaping(acc) == [acc EXCEPT !.exc = TRUE, !.recovery_result = None]

\* lines 158-159: what a strategy throws is logged and the loop goes on
StrategyRaised(acc) == acc

\* lines 144-159: one strategy, inside its try/except
TryStrategy(s, i, error, acc, now) ==
  LET c == can_recover(s, i, error, acc.w)
  IN  IF c.exc THEN StrategyRaised(acc)
      ELSE IF ~c.ret THEN acc
      ELSE LET applicable == [acc EXCEPT !.can = Append(@, i)]
               r == recover(s, i, error, c.w, now)
               called == [applicable EXCEPT !.rec = Append(@, i)]
           IN  IF r.exc THEN StrategyRaised([called EXCEPT !.w = r.w])
               ELSE KeepFirst(called, error, r)

\* mutant: the loop stops at the first strategy that recovered
RECURSIVE TryStrategiesUntilFirst(_, _, _, _, _)
TryStrategiesUntilFirst(strats, i, error, acc, now) ==
  IF i > Len(strats) \/ acc.exc \/ acc.recovery_result # None THEN acc
  ELSE The({TryStrategiesUntilFirst(strats, i + 1, error, a, now) :
              a \in {TryStrategy(strats[i], i, error, acc, now)}})

RECURSIVE TryStrategies(_, _, _, _, _)
TryStrategies(strats, i, error, acc, now) ==
  IF i > Len(strats) \/ acc.exc THEN acc
  ELSE The({TryStrategies(strats, i + 1, error, a, now) :
              a \in {TryStrategy(strats[i], i, error, acc, now)}})

\* what one call of ErrorHandler.handle_error did: the world it was given, the
\* errors list it left, what it returned and which strategies it called
CallLog(error, w, r) ==
  [ran |-> TRUE, error |-> error, w |-> w, after |-> r.w.ctx.errors, ret |-> r.ret,
   exc |-> r.exc, can |-> r.can, rec |-> r.rec]

NoCalls == [ran |-> FALSE, error |-> None,
            w |-> [ctx |-> PipelineContext, retry |-> <<>>, files |-> EmptyDict],
            after |-> <<>>, ret |-> None, exc |-> FALSE, can |-> <<>>, rec |-> <<>>]

ErrorHandler_handle_error(strats, error, w, now) ==
  IF error = None
  THEN \* line 138: error.__traceback__ on None raises AttributeError
       [w |-> w, ret |-> None, exc |-> TRUE, can |-> <<>>, rec |-> <<>>]
  ELSE The({[w |-> acc.w, ret |-> acc.recovery_result, exc |-> acc.exc,
              can |-> acc.can, rec |-> acc.rec] :
            acc \in {TryStrategies(strats, 1, error,
                       [w |-> w, recovery_result |-> None, exc |-> FALSE,
                        can |-> <<>>, rec |-> <<>>],
                       now)}})

\* ------------------------------------------------------------------ stages
\* MockFailingStage (tests): a PipelineStage that raises ConnectionError while
\*   attempt <= fail_times and then completes with its input as data.
\* DataValidationStage (pipeline.py): a PipelineStage that catches its own
\*   failure and returns a FAILED result carrying the error; its validation
\*   logic fails on the first fail_times attempts.
\* MockStage (tests): duck-typed, no handle_error; returns a fixed status with
\*   a fixed result_data and no error.
Stage(name, kind, fail_times, handlers) ==
  [name |-> name, kind |-> kind, fail_times |-> fail_times, handlers |-> handlers]

\* the outcome of one call of process: raised # None when it throws
MockFailingStage_process(stage, attempt_no, data) ==
  IF attempt_no <= stage.fail_times
  THEN [raised |-> "ConnErr", result |-> NoResult]
  ELSE [raised |-> None, result |-> StageResult(COMPLETED, data, None)]

DataValidationStage_process(stage, attempt_no, data) ==
  IF attempt_no <= stage.fail_times
  THEN [raised |-> None, result |-> StageResult(FAILED, None, "ValErr")]
  ELSE [raised |-> None, result |-> StageResult(COMPLETED, data, None)]

MockStage_process(stage, attempt_no, data) ==
  [raised |-> None,
   result |-> StageResult(IF stage.fail_times = 0 THEN COMPLETED ELSE FAILED,
                          MockResultData, None)]

\* what each stage of the presentation pipeline hands to the next one
StageOutput(name) ==
  CASE name = "Input Validation" -> "ValidatedData"
    [] name = "Content Generation" -> "SlideContents"
    [] name = "Slide Creation" -> "Slides"
    [] name = "Presentation Assembly" -> "OutputPath"

\* the four stages of presentation_pipeline_stages.py: whatever their
\* collaborator raises is caught and returned as a FAILED result
PresentationStage_process(stage, attempt_no, data) ==
  IF attempt_no <= stage.fail_times
  THEN [raised |-> None,
        result |-> StageResult(FAILED, None,
                               IF stage.name = "Content Generation" THEN "ConnErr"
                               ELSE "ValErr")]
  ELSE [raised |-> None, result |-> StageResult(COMPLETED, StageOutput(stage.name), None)]

process(stage, attempt_no, data) ==
  CASE stage.kind = "MockFailingStage" -> MockFailingStage_process(stage, attempt_no, data)
    [] stage.kind = "DataValidationStage" -> DataValidationStage_process(stage, attempt_no, data)
    [] stage.kind = "MockStage" -> MockStage_process(stage, attempt_no, data)
    [] stage.kind = "PresentationStage" -> PresentationStage_process(stage, attempt_no, data)

\* a duck-typed MockStage defines no handle_error method
HasHandleError(stage) == stage.kind # "MockStage"

\* mutant: the factory attaches the inner function and it returns what the
\* coordinator returned
FactoryHandler_returning(strats, error, w, now) ==
  The({[w |-> r.w, ret |-> r.ret, exc |-> r.exc, eh |-> <<CallLog(error, w, r)>>] :
       r \in {ErrorHandler_handle_error(strats, error, w, now)}})

\* pipeline_factory.py lines 112-120: create_handler is a coroutine function, so
\* what add_error_handler receives is a coroutine object; calling it raises
\* TypeError and the inner error_handler never runs
FactoryHandler(strats, error, w, now) ==
  [w |-> w, ret |-> None, exc |-> TRUE, eh |-> <<>>]

\* the values returned by the handlers "r1" and "r2"
HandlerValue(h) == IF h = "r1" THEN "H1" ELSE "H2"

\* One handler awaited.  A handler is the coordinator's bound method
\* ErrorHandler.handle_error, what the factory attaches, a callable that raises,
\* one that returns None or one that returns a value.
HandlerCall(h, strats, error, w, now) ==
  CASE h = "coordinator" ->
         The({[w |-> r.w, ret |-> r.ret, exc |-> r.exc, eh |-> <<CallLog(error, w, r)>>] :
              r \in {ErrorHandler_handle_error(strats, error, w, now)}})
    [] h = "factory" -> FactoryHandler(strats, error, w, now)
    [] h = "raises" -> [w |-> w, ret |-> None, exc |-> TRUE, eh |-> <<>>]
    [] h = "none" -> [w |-> w, ret |-> None, exc |-> FALSE, eh |-> <<>>]
    [] h \in {"r1", "r2"} -> [w |-> w, ret |-> HandlerValue(h), exc |-> FALSE, eh |-> <<>>]

\* mutant: every handler is awaited and the last non-null result is returned
RECURSIVE HandlersAll(_, _, _, _, _, _, _, _, _)
HandlersAll(handlers, k, strats, error, w, now, eh, called, ret) ==
  IF k > Len(handlers) THEN [w |-> w, ret |-> ret, eh |-> eh, called |-> called]
  ELSE The({HandlersAll(handlers, k + 1, strats, error, c.w, now,
                        IF c.eh = <<>> THEN eh ELSE c.eh[1], Append(called, k),
                        IF ~c.exc /\ c.ret # None THEN c.ret ELSE ret) :
            c \in {HandlerCall(handlers[k], strats, error, w, now)}})

PipelineStage_handle_error_all(stage, strats, error, w, now) ==
  HandlersAll(stage.handlers, 1, strats, error, w, now, NoCalls, <<>>, None)

\* PipelineStage.handle_error: handlers in order, first non-null result wins,
\* a handler that raises is logged and skipped.  called lists the handlers
\* that were awaited, eh is the coordinator's last call.
RECURSIVE HandlersFrom(_, _, _, _, _, _, _, _)
HandlersFrom(handlers, k, strats, error, w, now, eh, called) ==
  IF k > Len(handlers) THEN [w |-> w, ret |-> None, eh |-> eh, called |-> called]
  ELSE The({IF ~c.exc /\ c.ret # None
            THEN [w |-> c.w, ret |-> c.ret, eh |-> IF c.eh = <<>> THEN eh ELSE c.eh[1],
                  called |-> Append(called, k)]
            ELSE HandlersFrom(handlers, k + 1, strats, error, c.w, now,
                              IF c.eh = <<>> THEN eh ELSE c.eh[1], Append(called, k)) :
            c \in {HandlerCall(handlers[k], strats, error, w, now)}})

PipelineStage_handle_error(stage, strats, error, w, now) ==
  HandlersFrom(stage.handlers, 1, strats, error, w, now, NoCalls, <<>>)

\* what one call of PipelineStage.handle_error did
Handled(error, h) == [ran |-> TRUE, error |-> error, called |-> h.called, ret |-> h.ret]
NotHandled == [ran |-> FALSE, error |-> None, called |-> <<>>, ret |-> None]

\* an observer is a callable that returns ("ok") or throws ("raises")
ObserverRaises(observer) == observer = "raises"

\* lines 117-121 from observer k on: invoked lists the observers awaited so
\* far; with caught, the except block logs what an observer throws
RECURSIVE NotifyFrom(_, _, _, _)
NotifyFrom(obs, k, invoked, caught) ==
  IF k > Len(obs)
  THEN [invoked |-> invoked, exc |-> FALSE]
  ELSE IF ObserverRaises(obs[k]) /\ ~caught
       THEN [invoked |-> Append(invoked, k), exc |-> TRUE]
       ELSE NotifyFrom(obs, k + 1, Append(invoked, k), caught)

\* mutant: what an observer throws leaves _notify_observers
Pipeline_notify_observers_uncaught(obs) == NotifyFrom(obs, 1, <<>>, FALSE)

\* lines 115-121
Pipeline_notify_observers(obs) == NotifyFrom(obs, 1, <<>>, TRUE)

\* mutant: execute goes on with the context it finds
Execute_keep_context(old) == old

\* line 125: self.context = PipelineContext()
Execute_new_context(old) == PipelineContext

\* mutant: the stage is retried with the input it had
Execute_after_handle_error_same_input(recovery_data, data) ==
  IF recovery_data # None
  THEN [data |-> data, pc |-> "loop"]
  ELSE [data |-> data, pc |-> "done"]

\* lines 145-150 and 168-175: with recovery data the loop continues on the
\* same stage with that data, without it the loop is left
Execute_after_handle_error(recovery_data, data) ==
  IF recovery_data # None
  THEN [data |-> recovery_data, pc |-> "loop"]
  ELSE [data |-> data, pc |-> "done"]

\* mutant: a FAILED result's error is appended like a thrown one
Execute_failed_status_context_recording(ctx, error) == add_error(ctx, error)

\* lines 143-144: the handlers of a FAILED result are given the context as it is
Execute_failed_status_context(ctx, error) == ctx

\* mutant: no catch-all, the exception leaves execute
Execute_outer_reraise(ctx, e) == [ctx |-> ctx, propagated |-> TRUE]

\* lines 177-179: the catch-all around the loop
Execute_outer_except(ctx, e) == [ctx |-> add_error(ctx, e), propagated |-> FALSE]

\* --------------------------------------------------- PresentationGenerator
\* main.py lines 112-125: _setup_progress_tracking calls
\* pipeline._get_all_stages, a method of PipelineFactory that class Pipeline
\* does not define, so it raises AttributeError
setup_progress_tracking == Raise(None)

\* main.py lines 89-104, on the context execute returned
output_path_of(ctx) ==
  IF ctx.errors # <<>>
  THEN Raise(None)  \* RuntimeError
  ELSE LET output_path == get_data(ctx, "output_path", None)
       IN  Ret(None, IF output_path = None
                     THEN get_data(ctx, "stage_input_data", None)
                     ELSE output_path)

\* main.py lines 61-110, ctx being the context the run ends with; an exception
\* of any step is logged and raised again
generate_presentation(ctx) ==
  IF setup_progress_tracking.exc THEN Raise(None) ELSE output_path_of(ctx)

\* ------------------------------------------------------------------- state
VARIABLES
  stages,          \* the chain: stages[i]._next_stages[0] is stages[i+1]
  strategies,      \* the coordinator's strategy list
  observers,       \* Pipeline._observers: "ok" or "raises"
  pc,              \* where execute is
  runs,            \* how many times execute was called
  context,         \* Pipeline.context
  current_stage,   \* index into stages, 0 for None
  current_data,
  initial_data,    \* the argument of the current execute
  result,          \* the result of the attempt in progress
  raised,          \* the exception on its way to the inner except block
  propagated,      \* TRUE when an exception left execute
  attempt,         \* per stage, its attempt field
  last_result,     \* per stage, _last_result
  retry_counts,    \* per strategy position, RetryStrategy._retry_counts
  files,           \* checkpoint files by timestamp
  now,             \* the clock, in seconds
  invocations,     \* per stage, calls of process in the current run
  notified,        \* observers invoked for the attempt in progress
  calls,           \* the last call of ErrorHandler.handle_error
  start_counts,    \* retry_counts when the current run started
  pipeline_config, \* the config the pipeline was configured with, empty if none
  handled,         \* the last call of PipelineStage.handle_error
  writes           \* the set_data calls a caller made on a context, oldest first

vars == <<stages, strategies, observers, pc, runs, context, current_stage,
          current_data, initial_data, result, raised, propagated, attempt, last_result,
          retry_counts, files, now, invocations, notified, calls, start_counts,
          pipeline_config, handled, writes>>

wiring == <<stages, strategies, observers>>
config == <<wiring, pipeline_config>>

World == [ctx |-> context, retry |-> retry_counts, files |-> files]

\* ------------------------------------------------------- scenario universe
HandlerLists == {<<>>, <<"coordinator">>, <<"raises", "coordinator">>}

FirstStages ==
  {Stage("A", k, f, h) : k \in {"MockFailingStage", "DataValidationStage"},
                         f \in {0, 1, Forever}, h \in HandlerLists}
  \cup {Stage("A", "MockStage", f, <<>>) : f \in {0, Forever}}

SecondStages ==
  {Stage("B", "MockFailingStage", f, h) : f \in {0, Forever},
                                          h \in {<<>>, <<"coordinator">>}}
  \cup {Stage("B", "MockStage", 0, <<>>)}

StageChains == {<<a>> : a \in FirstStages} \cup {<<a, b>> : a \in FirstStages, b \in SecondStages}

StrategyLists ==
  {<<>>, <<AutoSave>>, <<Mock("raise", "A"), Mock("yes", "raise")>>, <<Mock("yes", "A")>>}
  \cup {<<Retry(n)>> : n \in 0..MaxRetries}
  \cup {<<Retry(n), AutoSave>> : n \in 0..MaxRetries}

ObserverLists == {<<>>, <<"raises", "ok">>}

\* ------------------------------------------------------------------ engine
Init ==
  /\ stages \in StageChains
  /\ strategies \in StrategyLists
  /\ observers \in ObserverLists
  /\ pc = "idle"
  /\ runs = 0
  /\ context = PipelineContext
  /\ current_stage = 0
  /\ current_data = None
  /\ initial_data = None
  /\ result = NoResult
  /\ raised = None
  /\ propagated = FALSE
  /\ attempt = [i \in 1..Len(stages) |-> 0]
  /\ last_result = [i \in 1..Len(stages) |-> NoResult]
  /\ retry_counts = [i \in 1..Len(strategies) |-> EmptyDict]
  /\ files = EmptyDict
  /\ now = 0
  /\ invocations = [i \in 1..Len(stages) |-> 0]
  /\ notified = <<>>
  /\ calls = NoCalls
  /\ start_counts = retry_counts
  /\ pipeline_config = EmptyDict
  /\ handled = NotHandled
  /\ writes = <<>>

\* lines 131-145 of pipeline_factory.py, on a pipeline that was just constructed
ApplyConfiguration(cfg) ==
  /\ pc = "idle"
  /\ pipeline_config = EmptyDict
  /\ handled = NotHandled
  /\ writes = <<>>
  /\ pipeline_config' = cfg
  /\ context' = apply_configuration(context, cfg)
  /\ UNCHANGED <<wiring, writes, handled, initial_data, pc, runs, current_stage, current_data, result, raised,
                 propagated, attempt, last_result, retry_counts, files, now, invocations,
                 notified, calls, start_counts>>

\* mutant: a new run starts with fresh retry counters
ExecuteWithFreshCounters(data) ==
  /\ pc \in {"idle", "done"}
  /\ ~propagated
  /\ runs < MaxRuns
  /\ runs' = runs + 1
  /\ context' = Execute_new_context(context)
  /\ current_stage' = 1
  /\ current_data' = data
  /\ initial_data' = data
  /\ pc' = "loop"
  /\ result' = NoResult
  /\ raised' = None
  /\ invocations' = [i \in 1..Len(stages) |-> 0]
  /\ notified' = <<>>
  /\ calls' = NoCalls
  /\ handled' = NotHandled
  /\ start_counts' = retry_counts
  /\ retry_counts' = [i \in 1..Len(strategies) |-> EmptyDict]
  /\ UNCHANGED <<config, writes, propagated, attempt, last_result, files, now>>

\* lines 125-127
Execute(data) ==
  /\ pc \in {"idle", "done"}
  /\ ~propagated
  /\ runs < MaxRuns
  /\ runs' = runs + 1
  /\ context' = Execute_new_context(context)
  /\ current_stage' = 1
  /\ current_data' = data
  /\ initial_data' = data
  /\ pc' = "loop"
  /\ result' = NoResult
  /\ raised' = None
  /\ invocations' = [i \in 1..Len(stages) |-> 0]
  /\ notified' = <<>>
  /\ calls' = NoCalls
  /\ handled' = NotHandled
  /\ start_counts' = retry_counts
  /\ UNCHANGED <<config, writes, propagated, attempt, last_result, retry_counts, files, now>>

\* mutant: the stage is invoked without the context being updated
DispatchStale ==
  /\ pc = "loop"
  /\ pc' = "process"
  /\ notified' = <<>>
  /\ UNCHANGED <<config, writes, handled, initial_data, runs, context, current_stage,
                 current_data, result, raised, propagated, attempt, last_result,
                 retry_counts, files, now, invocations, calls, start_counts>>

\* lines 130-136
Dispatch ==
  /\ pc = "loop"
  /\ context' = set_data(set_data(context, "stage_input_data", current_data),
                         "current_stage_name", stages[current_stage].name)
  /\ pc' = "process"
  /\ notified' = <<>>
  /\ UNCHANGED <<config, writes, handled, initial_data, runs, current_stage, current_data, result, raised, propagated,
                 attempt, last_result, retry_counts, files, now, invocations, calls,
                 start_counts>>

Outcome == process(stages[current_stage], Min(attempt[current_stage] + 1, MaxAttempt),
                   current_data)

Count(f) == [f EXCEPT ![current_stage] = Min(@ + 1, MaxAttempt)]

\* lines 138-140, process returns a result
ProcessReturns ==
  /\ pc = "process"
  /\ Outcome.raised = None
  /\ attempt' = Count(attempt)
  /\ invocations' = Count(invocations)
  /\ result' = Outcome.result
  /\ last_result' = [last_result EXCEPT ![current_stage] = Outcome.result]
  /\ pc' = "notify"
  /\ UNCHANGED <<config, writes, handled, initial_data, runs, context, current_stage, current_data, raised, propagated,
                 retry_counts, files, now, notified, calls, start_counts>>

\* mutant: the observers are told about an attempt that threw
ProcessRaisesNotifying ==
  /\ pc = "process"
  /\ Outcome.raised # None
  /\ attempt' = Count(attempt)
  /\ invocations' = Count(invocations)
  /\ raised' = Outcome.raised
  /\ pc' = "except"
  /\ notified' = notified \o Pipeline_notify_observers(observers).invoked
  /\ UNCHANGED <<config, writes, handled, initial_data, runs, context, current_stage, current_data, result, propagated,
                 last_result, retry_counts, files, now, calls, start_counts>>

\* line 138, process throws
ProcessRaises ==
  /\ pc = "process"
  /\ Outcome.raised # None
  /\ attempt' = Count(attempt)
  /\ invocations' = Count(invocations)
  /\ raised' = Outcome.raised
  /\ pc' = "except"
  /\ UNCHANGED <<config, writes, handled, initial_data, runs, context, current_stage, current_data, result, propagated,
                 last_result, retry_counts, files, now, notified, calls, start_counts>>

\* lines 115-121 and 141: every observer is awaited, a raising one is logged
NotifyObservers ==
  /\ pc = "notify"
  /\ \E n \in {Pipeline_notify_observers(observers)} :
        /\ notified' = notified \o n.invoked
        /\ IF n.exc
           THEN raised' = "ObserverErr" /\ pc' = "except"
           ELSE raised' = raised /\ pc' = "check"
  /\ UNCHANGED <<config, writes, handled, initial_data, runs, context, current_stage, current_data, result,
                 propagated, attempt, last_result, retry_counts, files, now, invocations,
                 calls, start_counts>>

\* lines 143-150
HandleFailed ==
  /\ pc = "check"
  /\ result.status = FAILED
  /\ IF ~HasHandleError(stages[current_stage])
     THEN /\ raised' = AttrErr1
          /\ pc' = "except"
          /\ UNCHANGED <<context, retry_counts, files, calls, handled, current_data>>
     ELSE \E h \in {PipelineStage_handle_error(stages[current_stage], strategies, result.error,
                        [World EXCEPT !.ctx = Execute_failed_status_context(context, result.error)],
                        now)} :
              /\ context' = h.w.ctx
              /\ retry_counts' = h.w.retry
              /\ files' = h.w.files
              /\ calls' = h.eh
              /\ handled' = Handled(result.error, h)
              /\ raised' = raised
              /\ current_data' = Execute_after_handle_error(h.ret, current_data).data
              /\ pc' = Execute_after_handle_error(h.ret, current_data).pc
  /\ UNCHANGED <<config, writes, initial_data, runs, current_stage, result, propagated, attempt, last_result,
                 now, invocations, notified, start_counts>>

\* mutant: the successor is handed the data its predecessor was handed
AdvanceKeepingInput ==
  /\ pc = "check"
  /\ result.status # FAILED
  /\ current_data' = current_data
  /\ IF current_stage < Len(stages)
     THEN current_stage' = current_stage + 1 /\ pc' = "loop"
     ELSE current_stage' = 0 /\ pc' = "done"
  /\ UNCHANGED <<config, writes, handled, initial_data, runs, context, result, raised, propagated, attempt, last_result,
                 retry_counts, files, now, invocations, notified, calls, start_counts>>

\* lines 152-158
Advance ==
  /\ pc = "check"
  /\ result.status # FAILED
  /\ current_data' = result.data
  /\ IF current_stage < Len(stages)
     THEN current_stage' = current_stage + 1 /\ pc' = "loop"
     ELSE current_stage' = 0 /\ pc' = "done"
  /\ UNCHANGED <<config, writes, handled, initial_data, runs, context, result, raised, propagated, attempt, last_result,
                 retry_counts, files, now, invocations, notified, calls, start_counts>>

\* lines 160-179
HandleException ==
  /\ pc = "except"
  /\ LET recorded == add_error(context, raised)
     IN  IF ~HasHandleError(stages[current_stage])
         THEN LET o == Execute_outer_except(recorded, AttrErr2)
              IN  /\ context' = o.ctx
                  /\ propagated' = o.propagated
                  /\ pc' = "done"
                  /\ UNCHANGED <<retry_counts, files, calls, handled, current_data>>
         ELSE \E h \in {PipelineStage_handle_error(stages[current_stage], strategies, raised,
                            [World EXCEPT !.ctx = recorded], now)} :
                  /\ context' = h.w.ctx
                  /\ retry_counts' = h.w.retry
                  /\ files' = h.w.files
                  /\ calls' = h.eh
                  /\ handled' = Handled(raised, h)
                  /\ propagated' = propagated
                  /\ current_data' = Execute_after_handle_error(h.ret, current_data).data
                  /\ pc' = Execute_after_handle_error(h.ret, current_data).pc
  /\ raised' = None
  /\ UNCHANGED <<config, writes, initial_data, runs, current_stage, result, attempt, last_result, now,
                 invocations, notified, start_counts>>

\* datetime.now() moves on
Tick ==
  /\ now < MaxClock
  /\ now' = now + 1
  /\ UNCHANGED <<config, writes, handled, initial_data, pc, runs, context, current_stage, current_data, result, raised,
                 propagated, attempt, last_result, retry_counts, files, invocations,
                 notified, calls, start_counts>>

Step == Dispatch \/ ProcessReturns \/ ProcessRaises \/ NotifyObservers \/ HandleFailed
        \/ Advance \/ HandleException

Next ==
  \/ \E d \in Data \cup {None} : Execute(d)
  \/ Dispatch
  \/ ProcessReturns
  \/ ProcessRaises
  \/ NotifyObservers
  \/ HandleFailed
  \/ Advance
  \/ HandleException
  \/ Tick

Spec == Init /\ [][Next]_vars

\* A one-stage pipeline whose context the wiring layer may write, as
\* _apply_configuration does, before the first execute.
ConfiguredInit == Init /\ Len(stages) = 1

ConfiguredNext == Next \/ \E cfg \in Configs : ApplyConfiguration(cfg)

SpecConfigured == ConfiguredInit /\ [][ConfiguredNext]_vars

\* The pipeline PipelineFactory.create_pipeline builds: four stages, each with
\* the handler _add_error_handlers attaches, and the performance observer.
\* Each stage's coordinator is created with [Retry, AutoSave] (and Fallback for
\* Content Generation).  The stages return every failure as a FAILED result, so
\* process never throws.
StageNames == <<"Input Validation", "Content Generation", "Slide Creation",
                "Presentation Assembly">>

FactoryChains ==
  {[i \in 1..4 |-> Stage(StageNames[i], "PresentationStage", f[i], <<"factory">>)] :
     f \in [1..4 -> {0, 1, Forever}]}

FactoryInit ==
  /\ stages \in FactoryChains
  /\ strategies = <<Retry(MaxRetries), AutoSave>>
  /\ observers = <<"ok">>
  /\ pc = "idle"
  /\ runs = 0
  /\ context = PipelineContext
  /\ current_stage = 0
  /\ current_data = None
  /\ initial_data = None
  /\ result = NoResult
  /\ raised = None
  /\ propagated = FALSE
  /\ attempt = [i \in 1..Len(stages) |-> 0]
  /\ last_result = [i \in 1..Len(stages) |-> NoResult]
  /\ retry_counts = [i \in 1..Len(strategies) |-> EmptyDict]
  /\ files = EmptyDict
  /\ now = 0
  /\ invocations = [i \in 1..Len(stages) |-> 0]
  /\ notified = <<>>
  /\ calls = NoCalls
  /\ start_counts = retry_counts
  /\ pipeline_config = EmptyDict
  /\ handled = NotHandled
  /\ writes = <<>>

FactoryNext ==
  \/ \E cfg \in Configs : ApplyConfiguration(cfg)
  \/ \E d \in Data \cup {None} : Execute(d)
  \/ Dispatch
  \/ ProcessReturns
  \/ NotifyObservers
  \/ HandleFailed
  \/ Advance
  \/ Tick

SpecFactory == FactoryInit /\ [][FactoryNext]_vars

\* The pipelines the stage handler constructors build: one stage whose
\* coordinator holds [Retry(N), AutoSave].  The event loop keeps running a
\* started execute, so its steps are weakly fair.
ComposedInit ==
  /\ Init
  /\ Len(stages) = 1
  /\ strategies \in {<<Retry(n), AutoSave>> : n \in 0..MaxRetries}

FairComposedSpec == ComposedInit /\ [][Next]_vars /\ WF_vars(Step)

\* ------------------------------------------- the coordinator on its own
\* ErrorHandler.handle_error called directly, as the unit tests do, on a context
\* the caller prepared with set_data and add_error.
MockStrategies ==
  {Mock("no", "A"), Mock("yes", None), Mock("yes", "A"), Mock("yes", "B"),
   Mock("raise", "A"), Mock("yes", "raise")}

RealStrategies == {AutoSave} \cup {Retry(n) : n \in 0..MaxRetries}

EHStrategyLists ==
  {<<>>}
  \cup {<<a>> : a \in MockStrategies \cup RealStrategies}
  \cup {<<a, b>> : a \in MockStrategies \cup RealStrategies,
                   b \in MockStrategies \cup RealStrategies}
  \cup {<<a, b, c>> : a \in MockStrategies, b \in MockStrategies, c \in MockStrategies}

EHErrors == {"E1", "E2"}

\* the errors lists a caller may have built with add_error, the same
\* exception possibly twice
EHErrorLists ==
  {<<>>} \cup {<<a>> : a \in EHErrors} \cup {<<a, b>> : a \in EHErrors, b \in EHErrors}

EHInit ==
  /\ stages = <<>>
  /\ strategies \in EHStrategyLists
  /\ observers = <<>>
  /\ pc = "coordinator"
  /\ runs = 0
  /\ \E d \in {"D1", None}, errs \in EHErrorLists :
       context = [set_data(set_data(PipelineContext, "current_stage_name", "A"),
                           "stage_input_data", d) EXCEPT !.errors = errs]
  /\ current_stage = 0
  /\ current_data = None
  /\ initial_data = None
  /\ result = NoResult
  /\ raised = None
  /\ propagated = FALSE
  /\ attempt = <<>>
  /\ last_result = <<>>
  /\ retry_counts = [i \in 1..Len(strategies) |-> EmptyDict]
  /\ files = EmptyDict
  /\ now = 0
  /\ invocations = <<>>
  /\ notified = <<>>
  /\ calls = NoCalls
  /\ start_counts = <<>>
  /\ pipeline_config = EmptyDict
  /\ handled = NotHandled
  /\ writes = <<>>

EHFrame == UNCHANGED <<config, writes, handled, initial_data, pc, runs, current_stage, current_data, result,
                       raised, propagated, attempt, last_result, now, invocations,
                       notified, start_counts>>

\* context.set_data("current_stage_name", name)
EHSetStageName(name) ==
  /\ get_data(context, "current_stage_name", None) # name
  /\ context' = set_data(context, "current_stage_name", name)
  /\ UNCHANGED <<retry_counts, files, calls>>
  /\ EHFrame

\* await handler.handle_error(error, context)
EHHandleError(error) ==
  /\ LET r == ErrorHandler_handle_error(strategies, error, World, now)
     IN  /\ context' = r.w.ctx
         /\ retry_counts' = r.w.retry
         /\ files' = r.w.files
         /\ calls' = CallLog(error, World, r)
  /\ EHFrame

EHNext ==
  \/ \E name \in {"A", "B"} : EHSetStageName(name)
  \/ \E e \in {"E1", None} : EHHandleError(e)

SpecEH == EHInit /\ [][EHNext]_vars

\* ------------------------------------------------ one strategy on its own
\* can_recover and recover of one strategy called directly, as the unit tests
\* do, on a context the caller fills with set_data.
StrategyUnderTest ==
  {<<AutoSave>>, <<Fallback>>} \cup {<<Retry(n)>> : n \in 0..MaxRetries}

\* the values the caller may put under each key
TestValues(key) ==
  CASE key = "current_stage_name" -> {"Content Generation", "test_stage"}
    [] key = "stage_input_data" -> {None, "D1", TupleD, IntKeyDict, PathD}
    [] key = "topic" -> {"Test Presentation", "Other Topic"}

\* exceptions handed to the strategy
TestErrors == {"ConnErr", "ConnResetErr", "TimeoutErr", "OSErr", "ValErr", "E1"}

StrategyCall(op, error, w, r, at) ==
  [ran |-> TRUE, op |-> op, error |-> error, w |-> w, after |-> r.w, ret |-> r.ret,
   exc |-> r.exc, at |-> at]

StratInit ==
  /\ stages = <<>>
  /\ strategies \in StrategyUnderTest
  /\ observers = <<>>
  /\ pc = "strategy"
  /\ runs = 0
  /\ context = PipelineContext
  /\ current_stage = 0
  /\ current_data = None
  /\ initial_data = None
  /\ result = NoResult
  /\ raised = None
  /\ propagated = FALSE
  /\ attempt = <<>>
  /\ last_result = <<>>
  /\ retry_counts = <<EmptyDict>>
  /\ files = EmptyDict
  /\ now = 0
  /\ invocations = <<>>
  /\ notified = <<>>
  /\ calls = NoCalls
  /\ start_counts = <<>>
  /\ pipeline_config = EmptyDict
  /\ handled = NotHandled
  /\ writes = <<>>

\* context.set_data(key, value), before the strategy is called
StratSetData(key, value) ==
  /\ key \notin DOMAIN context.data
  /\ ~calls.ran
  /\ context' = set_data(context, key, value)
  /\ UNCHANGED <<retry_counts, files, calls>>
  /\ EHFrame

\* await strategy.can_recover(error, context)
StratCanRecover(error) ==
  /\ LET r == can_recover(strategies[1], 1, error, World)
     IN  /\ context' = r.w.ctx
         /\ retry_counts' = r.w.retry
         /\ files' = r.w.files
         /\ calls' = StrategyCall("can_recover", error, World, r, now)
  /\ EHFrame

\* await strategy.recover(error, context)
StratRecover(error) ==
  /\ strategies[1].kind = "Retry"
       => DictGet(retry_counts[1], get_data(context, "current_stage_name", None), 0)
            < MaxAttempt
  /\ LET r == recover(strategies[1], 1, error, World, now)
     IN  /\ context' = r.w.ctx
         /\ retry_counts' = r.w.retry
         /\ files' = r.w.files
         /\ calls' = StrategyCall("recover", error, World, r, now)
  /\ EHFrame

StratNext ==
  \/ \E key \in {"current_stage_name", "stage_input_data", "topic"} :
       \E value \in TestValues(key) : StratSetData(key, value)
  \/ \E e \in TestErrors : StratCanRecover(e)
  \/ \E e \in TestErrors : StratRecover(e)
  \/ Tick

SpecStrategy == StratInit /\ [][StratNext]_vars

\* ------------------------------------------- one stage's handlers on their own
\* add_error_handler and handle_error of one PipelineStage called directly.
HandlerKinds == {"coordinator", "raises", "none", "r1", "r2"}

HandlersInit ==
  /\ stages = <<Stage("A", "MockFailingStage", 0, <<>>)>>
  /\ strategies \in {<<>>, <<Mock("yes", "A")>>}
  /\ observers = <<>>
  /\ pc = "handlers"
  /\ runs = 0
  /\ \E errs \in {<<>>, <<"E1">>} :
       context = [set_data(set_data(PipelineContext, "current_stage_name", "A"),
                           "stage_input_data", "D1") EXCEPT !.errors = errs]
  /\ current_stage = 0
  /\ current_data = None
  /\ initial_data = None
  /\ result = NoResult
  /\ raised = None
  /\ propagated = FALSE
  /\ attempt = <<0>>
  /\ last_result = <<NoResult>>
  /\ retry_counts = [i \in 1..Len(strategies) |-> EmptyDict]
  /\ files = EmptyDict
  /\ now = 0
  /\ invocations = <<0>>
  /\ notified = <<>>
  /\ calls = NoCalls
  /\ start_counts = <<>>
  /\ pipeline_config = EmptyDict
  /\ handled = NotHandled
  /\ writes = <<>>

\* stage.add_error_handler(handler)
AddErrorHandler(h) ==
  /\ Len(stages[1].handlers) < MaxHandlers
  /\ stages' = [stages EXCEPT ![1].handlers = Append(@, h)]
  /\ handled' = NotHandled
  /\ UNCHANGED <<strategies, observers, pipeline_config, writes, initial_data, pc, runs,
                 context, current_stage, current_data, result, raised, propagated, attempt,
                 last_result, retry_counts, files, now, invocations, notified, calls,
                 start_counts>>

\* await stage.handle_error(error, context)
StageHandleError(error) ==
  /\ \E h \in {PipelineStage_handle_error(stages[1], strategies, error, World, now)} :
       /\ context' = h.w.ctx
       /\ retry_counts' = h.w.retry
       /\ files' = h.w.files
       /\ calls' = h.eh
       /\ handled' = Handled(error, h)
  /\ UNCHANGED <<config, writes, initial_data, pc, runs, current_stage, current_data, result,
                 raised, propagated, attempt, last_result, now, invocations, notified,
                 start_counts>>

HandlersNext ==
  \/ \E h \in HandlerKinds : AddErrorHandler(h)
  \/ \E e \in {"E1", None} : StageHandleError(e)

SpecHandlers == HandlersInit /\ [][HandlersNext]_vars

\* ------------------------------------------------- the context on its own
\* set_data and get_data called on a new PipelineContext.
CtxKeys == {"k1", "k2"}
CtxValues == {"v1", "v2", None}
CtxDefaults == {None, "d"}

ContextInit ==
  /\ stages = <<>>
  /\ strategies = <<>>
  /\ observers = <<>>
  /\ pc = "context"
  /\ runs = 0
  /\ context = PipelineContext
  /\ current_stage = 0
  /\ current_data = None
  /\ initial_data = None
  /\ result = NoResult
  /\ raised = None
  /\ propagated = FALSE
  /\ attempt = <<>>
  /\ last_result = <<>>
  /\ retry_counts = <<>>
  /\ files = EmptyDict
  /\ now = 0
  /\ invocations = <<>>
  /\ notified = <<>>
  /\ calls = NoCalls
  /\ start_counts = <<>>
  /\ pipeline_config = EmptyDict
  /\ handled = NotHandled
  /\ writes = <<>>

ContextFrame == UNCHANGED <<config, handled, initial_data, pc, runs, current_stage,
                            current_data, result, raised, propagated, attempt, last_result,
                            retry_counts, files, now, invocations, notified, start_counts>>

\* context.set_data(key, value)
CtxSetData(key, value) ==
  /\ Len(writes) < MaxWrites
  /\ context' = set_data(context, key, value)
  /\ writes' = Append(writes, <<key, value>>)
  /\ calls' = [ran |-> TRUE, op |-> "set_data", key |-> key, default |-> None,
               ret |-> None, before |-> context]
  /\ ContextFrame

\* context.get_data(key, default)
CtxGetData(key, default) ==
  /\ LET r == PipelineContext_get_data(context, key, default)
     IN  /\ context' = r.c
         /\ calls' = [ran |-> TRUE, op |-> "get_data", key |-> key, default |-> default,
                      ret |-> r.ret, before |-> context]
  /\ UNCHANGED writes
  /\ ContextFrame

ContextNext ==
  \/ \E key \in CtxKeys, value \in CtxValues : CtxSetData(key, value)
  \/ \E key \in CtxKeys, default \in CtxDefaults : CtxGetData(key, default)

SpecContext == ContextInit /\ [][ContextNext]_vars

\* ================================================================ properties
SeqElems(q) == {q[k] : k \in 1..Len(q)}
Without(q, k) == SubSeq(q, 1, k - 1) \o SubSeq(q, k + 1, Len(q))
StageNameIn(w) == get_data(w.ctx, "current_stage_name", None)
InputIn(w) == get_data(w.ctx, "stage_input_data", None)

\* what the documentation says of each strategy, stated on the world the
\* coordinator was called with
Applies(s, i, w) ==
  CASE s.kind = "Retry" -> DictGet(w.retry[i], StageNameIn(w), 0) < s.max_retries
    [] s.kind = "AutoSave" -> TRUE
    [] s.kind = "Mock" -> s.can = "yes"

Gives(s, i, w) ==
  CASE s.kind = "Retry" -> InputIn(w)
    [] s.kind = "AutoSave" -> InputIn(w)
    [] s.kind = "Mock" -> IF s.rec = "raise" THEN None ELSE s.rec

\* the stage the run stopped at failed for good
Stopped == pc = "done" /\ current_stage # 0

\* stage 1 fails on every attempt and is wired to the coordinator alone
AlwaysFailingFirst ==
  /\ stages[1].kind \in {"MockFailingStage", "DataValidationStage"}
  /\ stages[1].fail_times = Forever
  /\ stages[1].handlers = <<"coordinator">>

\* C1: with Retry(N) alone and a stage that fails on every attempt (by raising or
\* by returning FAILED) on a non-null input, the first run invokes process
\* exactly N + 1 times and ends with the error still in context.errors.
C1_RetryThenErrorRetained ==
  (/\ pc = "done"
   /\ runs = 1
   /\ AlwaysFailingFirst
   /\ Len(strategies) = 1
   /\ strategies[1].kind = "Retry"
   /\ initial_data # None)
  => /\ invocations[1] = strategies[1].max_retries + 1
     /\ context.errors # <<>>

\* C1, the part the code keeps: N + 1 invocations on both channels, and the
\* error retained when process raises.
C1_AttemptsOnly ==
  (/\ pc = "done"
   /\ runs = 1
   /\ AlwaysFailingFirst
   /\ Len(strategies) = 1
   /\ strategies[1].kind = "Retry"
   /\ initial_data # None)
  => /\ invocations[1] = strategies[1].max_retries + 1
     /\ (stages[1].kind = "MockFailingStage" => context.errors = <<"ConnErr">>)

\* C2: with [Retry(N), AutoSave] in the coordinator a started run returns.
C2_ComposedRunTerminates ==
  (/\ pc = "loop"
   /\ strategies[1].kind = "Retry"
   /\ strategies[2].kind = "AutoSave") ~> (pc = "done")

\* C3: a run that stopped at a stage that could not be recovered returns a
\* context whose errors list is not empty.
C3_StoppedRunHasErrors == Stopped => context.errors # <<>>

\* C4: no exception leaves execute; a fault that escapes the per-stage handling
\* (here the AttributeError of a stage without handle_error, raised inside the
\* except block) is the last entry of context.errors when execute returns.
C4_ExecuteNeverRaises ==
  /\ ~propagated
  /\ (Stopped /\ ~HasHandleError(stages[current_stage]))
       => (context.errors # <<>> /\ context.errors[Len(context.errors)] = AttrErr2)

C4_Witness ==
  /\ pc = "done"
  /\ ListContains(context.errors, AttrErr2)
  /\ Len(notified) = 2
  /\ observers[1] = "raises"

\* C5: handle_error calls recover on exactly the strategies whose can_recover
\* returned true, in list order, and returns the first non-null recover result
\* in list order, or null when there is none.
C5_FirstNonNullWins ==
  (calls.ran /\ ~calls.exc) =>
    LET n == Len(strategies)
        App(i) == Applies(strategies[i], i, calls.w)
        giving == {i \in 1..n : App(i) /\ Gives(strategies[i], i, calls.w) # None}
        first == CHOOSE i \in giving : \A j \in giving : i <= j
    IN  /\ calls.can = SelectSeq([i \in 1..n |-> i], App)
        /\ calls.rec = calls.can
        /\ calls.ret = IF giving = {} THEN None
                       ELSE Gives(strategies[first], first, calls.w)

C5_Witness ==
  /\ strategies = <<Mock("no", "A"), Mock("yes", "A"), Mock("yes", "B")>>
  /\ calls.ran
  /\ calls.rec = <<2, 3>>
  /\ calls.ret = "A"

\* C6: a call that returns non-null has removed exactly one occurrence of the
\* triggering error if it was in context.errors and touched no other entry; a
\* call that returns null leaves context.errors as it was.
C6_ErrorRemovedOnce ==
  calls.ran =>
    LET before == calls.w.ctx.errors
    IN  IF calls.ret # None /\ ListContains(before, calls.error)
        THEN \E k \in 1..Len(before) :
               before[k] = calls.error /\ calls.after = Without(before, k)
        ELSE calls.after = before

C6_Witness ==
  /\ calls.ran
  /\ calls.ret # None
  /\ Len(calls.rec) = 2
  /\ Gives(strategies[2], 2, calls.w) # None
  /\ calls.w.ctx.errors = <<"E1", "E1">>
  /\ calls.after = <<"E1">>

\* C9: no attempt counter of a Retry strategy exceeds max_retries; the
\* coordinator found can_recover true exactly when the counter of the current
\* stage name was below max_retries; with the counter at max_retries
\* can_recover is false.
C9_RetryBudget ==
  \A i \in 1..Len(strategies) :
    strategies[i].kind = "Retry" =>
      /\ \A name \in DOMAIN retry_counts[i] :
           retry_counts[i][name] <= strategies[i].max_retries
      /\ (calls.ran /\ ~calls.exc) =>
           (i \in SeqElems(calls.can)
              <=> DictGet(calls.w.retry[i], StageNameIn(calls.w), 0)
                    < strategies[i].max_retries)
      /\ DictGet(retry_counts[i], StageNameIn(World), 0) = strategies[i].max_retries
           => ~RetryStrategy_can_recover(strategies[i], i, "E1", World).ret

C9_Witness ==
  /\ calls.ran
  /\ \E i \in 1..Len(strategies) :
       /\ strategies[i].kind = "Retry"
       /\ strategies[i].max_retries = MaxRetries
       /\ DictGet(calls.w.retry[i], StageNameIn(calls.w), 0) = MaxRetries
       /\ i \notin SeqElems(calls.can)
       /\ DictGet(retry_counts[i], "B", 0) < MaxRetries

\* the scenario of test_pipeline_error_recovery: one stage that raises once
C7Scenario ==
  /\ runs = 1
  /\ stages = <<Stage("A", "MockFailingStage", 1, <<"coordinator">>)>>
  /\ strategies = <<Retry(2), AutoSave>>

C7Outcome ==
  /\ context.errors = <<>>
  /\ invocations[1] = 2
  /\ Cardinality(DOMAIN files) = 1
  /\ last_result[1] = StageResult(COMPLETED, initial_data, None)
  /\ get_data(context, "stage_input_data", None) = initial_data

C8_NoHandlersOneError ==
  (/\ Stopped
   /\ stages[current_stage].kind = "MockFailingStage"
   /\ stages[current_stage].handlers = <<>>)
  => /\ invocations[current_stage] = 1
     /\ \A j \in (current_stage + 1)..Len(stages) : invocations[j] = 0
     /\ context.errors = <<"ConnErr">>

C8_Witness ==
  /\ Stopped
  /\ current_stage = 1
  /\ Len(stages) = 2
  /\ stages[1].kind = "MockFailingStage"
  /\ stages[1].handlers = <<>>
  /\ invocations = <<1, 0>>
  /\ context.errors = <<"ConnErr">>

\* C10: retry counters never go back, within a run or when a new run starts;
\* a run that starts with the budget of a stage name used up and fails at that
\* stage, with Retry as the only strategy, invoked the stage once and left the
\* counter where it was.
C10_BudgetNotReset ==
  /\ \A i \in 1..Len(strategies) : \A name \in DOMAIN start_counts[i] :
       /\ name \in DOMAIN retry_counts[i]
       /\ retry_counts[i][name] >= start_counts[i][name]
  /\ (/\ Stopped
      /\ runs >= 2
      /\ HasHandleError(stages[current_stage])
      /\ Len(strategies) = 1
      /\ strategies[1].kind = "Retry"
      /\ DictGet(start_counts[1], stages[current_stage].name, 0)
           = strategies[1].max_retries)
     => /\ invocations[current_stage] = 1
        /\ DictGet(retry_counts[1], stages[current_stage].name, 0)
             = strategies[1].max_retries

C10_Witness ==
  /\ Stopped
  /\ runs = 2
  /\ strategies = <<Retry(MaxRetries)>>
  /\ stages[current_stage].handlers = <<"coordinator">>
  /\ stages[current_stage].fail_times = Forever
  /\ initial_data # None
  /\ DictGet(start_counts[1], stages[current_stage].name, 0) = MaxRetries
  /\ invocations[current_stage] = 1

\* the keys the wiring layer writes
ConfigKeys == {ConfigKey(k) : k \in DOMAIN TestConfig}

\* C11: a run starts from an empty context: just after execute was called the
\* context has no data and no errors; no configuration key written before the
\* call is in the context of a run; every entry of errors was added by an
\* attempt of this run (at most one per invocation, and one by the catch-all).
C11_FreshContext ==
  /\ (pc = "loop" /\ \A i \in 1..Len(stages) : invocations[i] = 0)
       => context = PipelineContext
  /\ pc \in {"loop", "process", "notify", "check", "except", "done"}
       => /\ DOMAIN context.data \cap ConfigKeys = {}
          /\ Len(context.errors) <= invocations[1] + 1

\* the second run of a pipeline that was configured and whose first run ended
\* with an error
C11_Witness ==
  /\ runs = 2
  /\ pc = "loop"
  /\ invocations[1] = 0
  /\ context = PipelineContext
  /\ pipeline_config = TestConfig
  /\ stages[1] = Stage("A", "MockFailingStage", Forever, <<>>)
  /\ attempt[1] = 1

\* C12: in a pipeline configured by the wiring layer, every configuration value
\* is readable through get_data when a stage's process is invoked.
C12_ConfigReadable ==
  (pc = "process" /\ pipeline_config # EmptyDict) =>
    \A k \in DOMAIN pipeline_config :
      get_data(context, ConfigKey(k), None) = pipeline_config[k]

C14_FallbackApplies ==
  (calls.ran /\ strategies = <<Fallback>> /\ calls.op = "can_recover") =>
    /\ ~calls.exc
    /\ calls.after = calls.w
    /\ calls.ret = (/\ calls.error \in {"ConnErr", "ConnResetErr", "TimeoutErr"}
                    /\ "current_stage_name" \in DOMAIN calls.w.ctx.data
                    /\ calls.w.ctx.data["current_stage_name"] = "Content Generation")

C14_Witness ==
  /\ calls.ran
  /\ strategies = <<Fallback>>
  /\ calls.op = "can_recover"
  /\ calls.error = "ConnResetErr"
  /\ StageNameIn(calls.w) = "Content Generation"
  /\ calls.ret = TRUE

\* what AutoSave is documented to do on the context it was called with
C15Outcome ==
  /\ ~calls.exc
  /\ calls.at \in DOMAIN calls.after.files
  /\ json_loads(calls.after.files[calls.at]).stage_name = StageNameIn(calls.w)
  /\ json_loads(calls.after.files[calls.at]).input_data = InputIn(calls.w)
  /\ calls.ret = InputIn(calls.w)
  /\ calls.after.ctx = calls.w.ctx

C15CanRecover ==
  (calls.ran /\ strategies = <<AutoSave>> /\ calls.op = "can_recover")
    => (calls.ret = TRUE /\ ~calls.exc /\ calls.after = calls.w)

JsonFaithful(v) == v \notin {TupleD, IntKeyDict, PathD}

HandlerGives(h, error) ==
  CASE h \in {"raises", "none"} -> None
    [] h = "r1" -> "H1"
    [] h = "r2" -> "H2"
    [] h = "coordinator" -> IF error = None \/ strategies = <<>> THEN None ELSE "A"

\* C16: handle_error awaits the handlers in the order they were added, up to and
\* including the first that returns non-null, and returns that result; a
\* handler that throws counts as null; with no non-null result every handler
\* was awaited and null is returned.
C16_FirstHandlerWins ==
  (pc = "handlers" /\ handled.ran) =>
    LET hs == stages[1].handlers
        giving == {k \in 1..Len(hs) : HandlerGives(hs[k], handled.error) # None}
        first == CHOOSE k \in giving : \A j \in giving : k <= j
    IN  IF giving = {}
        THEN handled.ret = None /\ handled.called = [k \in 1..Len(hs) |-> k]
        ELSE /\ handled.ret = HandlerGives(hs[first], handled.error)
             /\ handled.called = [k \in 1..first |-> k]

C16_Witness ==
  /\ pc = "handlers"
  /\ handled.ran
  /\ stages[1].handlers = <<"raises", "r2", "r1">>
  /\ handled.called = <<1, 2>>
  /\ handled.ret = "H2"

\* C17: in a factory-built pipeline handle_error returns null for every stage
\* failure, so no stage is invoked twice in a run and the run stops at the
\* first stage that fails, with no later stage invoked.
C17_FactoryNeverRecovers ==
  /\ handled.ran => (handled.ret = None /\ pc = "done" /\ current_stage # 0)
  /\ \A i \in 1..Len(stages) : invocations[i] <= 1
  /\ Stopped => /\ result.status = FAILED
                /\ handled.ran
                /\ invocations[current_stage] = 1
                /\ \A j \in (current_stage + 1)..Len(stages) : invocations[j] = 0

\* the second stage would complete on a second attempt, and the input is not null
C17_Witness ==
  /\ Stopped
  /\ runs = 1
  /\ current_stage = 2
  /\ stages[2].handlers = <<"factory">>
  /\ stages[2].fail_times = 1
  /\ initial_data = "D1"
  /\ handled.called = <<1>>
  /\ invocations = <<1, 1, 0, 0>>

\* every stage of the run completed
AllCompleted == pc = "done" /\ current_stage = 0 /\ runs >= 1

\* C18: after a run in which every stage completed, generate_presentation
\* returns the data of the final stage's result.
C18_ReturnsFinalOutput ==
  AllCompleted =>
    /\ ~generate_presentation(context).exc
    /\ generate_presentation(context).ret = last_result[Len(stages)].data

\* C18, lines 89-104 alone: what is returned is the final stage's output.
C18_OutputPathOf ==
  AllCompleted =>
    /\ ~output_path_of(context).exc
    /\ output_path_of(context).ret = last_result[Len(stages)].data

\* the value of the most recent write of key in ws, or default when there is none
LastWrite(ws, key, default) ==
  LET at == {i \in 1..Len(ws) : ws[i][1] = key}
  IN  IF at = {} THEN default
      ELSE ws[CHOOSE i \in at : \A j \in at : j <= i][2]

\* C19: get_data(k, d) returned the value of the most recent set_data(k, v), or d
\* when k was never set; it left the context as it was; the same call made
\* again returns the same value; a set_data written since is what get_data
\* returns now.
C19_LastWriteWins ==
  /\ (pc = "context" /\ calls.ran /\ calls.op = "get_data") =>
       /\ calls.ret = LastWrite(writes, calls.key, calls.default)
       /\ context = calls.before
       /\ PipelineContext_get_data(context, calls.key, calls.default).ret = calls.ret
  /\ pc = "context" =>
       \A k \in CtxKeys, d \in CtxDefaults :
         PipelineContext_get_data(context, k, d).ret = LastWrite(writes, k, d)

\* a key written twice and read with a default, another key never written
C19_Witness ==
  /\ pc = "context"
  /\ writes = <<<<"k1", "v1">>, <<"k1", None>>>>
  /\ calls.ran
  /\ calls.op = "get_data"
  /\ calls.key = "k1"
  /\ calls.default = "d"
  /\ calls.ret = None
  /\ get_data(context, "k2", "d") = "d"

\* C20: whenever process is about to be invoked, stage_input_data in the context
\* is the data handed to the invocation and current_stage_name is the name of
\* the stage invoked, on a first dispatch and on a re-dispatch after recovery.
C20_ContextAtInvocation ==
  pc = "process" =>
    /\ "stage_input_data" \in DOMAIN context.data
    /\ context.data["stage_input_data"] = current_data
    /\ "current_stage_name" \in DOMAIN context.data
    /\ context.data["current_stage_name"] = stages[current_stage].name

\* the second stage re-dispatched after a recovery
C20_Witness ==
  /\ pc = "process"
  /\ current_stage = 2
  /\ invocations[2] >= 1
  /\ handled.ran
  /\ handled.ret = "D2"
  /\ context.data["current_stage_name"] = "B"
  /\ context.data["stage_input_data"] = "D2"

\* C21: whenever handle_error returns recovery data after a failed attempt,
\* thrown or reported by status, the loop goes on with the same stage and with
\* that data, and the next dispatch hands the stage exactly that data.
C21_RedispatchWithRecoveryData ==
  [][/\ ((HandleFailed \/ HandleException) /\ HasHandleError(stages[current_stage])
             /\ handled'.ret # None)
        => (pc' = "loop" /\ current_stage' = current_stage /\ current_data' = handled'.ret)
     /\ (pc \in {"loop", "process"} /\ pc' \in {"loop", "process"})
        => (current_stage' = current_stage /\ current_data' = current_data)
     /\ (pc = "loop" /\ pc' = "process")
        => (get_data(context', "stage_input_data", None) = current_data
            /\ get_data(context', "current_stage_name", None) = stages[current_stage].name)
    ]_vars

C21_Witness ==
  /\ pc = "process"
  /\ handled.ran /\ handled.ret = "A" /\ handled.ret # initial_data
  /\ current_data = "A"
  /\ get_data(context, "stage_input_data", None) = "A"
  /\ invocations[current_stage] >= 1

\* the stage the loop is at has not been invoked in this run
FirstInvocationAhead ==
  pc \in {"loop", "process"} /\ invocations[current_stage] = 0

C22_Order ==
  /\ \A j \in 2..Len(stages) :
        invocations[j] >= 1 =>
          /\ invocations[j - 1] >= 1
          /\ last_result[j - 1] # NoResult
          /\ last_result[j - 1].status # FAILED
  /\ (FirstInvocationAhead /\ current_stage = 1) => current_data = initial_data
  /\ (FirstInvocationAhead /\ current_stage > 1) =>
        current_data = last_result[current_stage - 1].data
  /\ Stopped => \A j \in 1..Len(stages) : j > current_stage => invocations[j] = 0
  /\ (pc = "done" /\ current_stage = 0) =>
        /\ invocations[Len(stages)] >= 1
        /\ last_result[Len(stages)].status # FAILED
  /\ pc \in {"loop", "process", "notify", "check", "except"} => current_stage \in 1..Len(stages)

\* C22: stages are invoked in chain order: a stage is first invoked only after
\* its predecessor returned a result that is not FAILED, with that result's
\* data as input; no stage after one that failed without recovery is invoked;
\* the run ends right after the last stage of the chain succeeds.
C22_ChainOrder ==
  /\ []C22_Order
  /\ [][/\ (pc = "check" /\ pc' # "check" /\ result.status # FAILED /\ current_stage = Len(stages))
             => (pc' = "done" /\ invocations' = invocations)
        /\ (pc = "check" /\ pc' # "check" /\ result.status # FAILED /\ current_stage < Len(stages))
             => (/\ current_stage' = current_stage + 1
                 /\ current_data' = result.data
                 /\ invocations' = invocations)
        /\ (pc = "done" /\ pc' = "done") => invocations' = invocations
       ]_vars

C22_Witness ==
  /\ Len(stages) = 2
  /\ pc = "done" /\ current_stage = 0
  /\ invocations[1] >= 2
  /\ invocations[2] >= 1
  /\ last_result[1].data # initial_data

\* every registered observer once, in registration order
EveryObserverOnce == [k \in 1..Len(observers) |-> k]

C23_Notified ==
  /\ pc \in {"process", "notify"} => notified = <<>>
  /\ pc = "check" => notified = EveryObserverOnce
  /\ (pc = "except" /\ raised \in StageErrors) => notified = <<>>
  /\ (pc = "except" /\ raised \notin StageErrors) => notified = EveryObserverOnce
  /\ notified \in {<<>>, EveryObserverOnce}

\* C23: for every attempt whose process returned a result each registered
\* observer is invoked exactly once, in registration order, before recovery
\* for the attempt starts; for an attempt whose process threw none is invoked.
C23_ObserversOncePerResult ==
  /\ []C23_Notified
  /\ [][/\ (pc = "process" /\ pc' = "notify") => notified' = <<>>
        /\ (pc = "notify" /\ pc' # "notify") => notified' = EveryObserverOnce
        /\ (pc = "process" /\ pc' = "except") => notified' = <<>>
        /\ (pc \in {"check", "except"}) => notified' = notified
        /\ (handled' # handled /\ handled'.ran /\ handled'.error = result.error /\ pc = "check")
             => notified = EveryObserverOnce
       ]_vars

C23_Witness ==
  /\ pc = "loop"
  /\ Len(observers) = 2
  /\ notified = <<1, 2>>
  /\ handled.ran /\ handled.ret # None
  /\ result.status = FAILED
  /\ invocations[current_stage] >= 1

\* a registration list in which every observer returns normally
Returning(obs) == [k \in 1..Len(obs) |-> "ok"]

C24_NotifyResult ==
  pc = "notify" =>
    /\ ~Pipeline_notify_observers(observers).exc
    /\ Pipeline_notify_observers(observers) = Pipeline_notify_observers(Returning(observers))

\* C24: an observer that throws does not change the run: the observers after
\* it are still invoked, nothing is appended to context.errors, no recovery
\* is triggered, and the run goes on from the state it would go on from had
\* the observer returned normally.
C24_ThrowingObserverHarmless ==
  /\ []C24_NotifyResult
  /\ [][(pc = "notify" /\ pc' # "notify") =>
           /\ pc' = "check"
           /\ notified' = EveryObserverOnce
           /\ context' = context
           /\ raised' = raised
           /\ handled' = handled /\ calls' = calls
           /\ retry_counts' = retry_counts /\ files' = files
           /\ current_stage' = current_stage /\ current_data' = current_data
           /\ result' = result /\ last_result' = last_result
           /\ invocations' = invocations /\ attempt' = attempt
        ]_vars

C24_Witness ==
  /\ pc = "check"
  /\ observers = <<"raises", "ok">>
  /\ notified = <<1, 2>>
  /\ result.status = COMPLETED
  /\ context.errors = <<>>
  /\ ~handled.ran

\* C25: the engine appends a stage's error to context.errors exactly when
\* process threw it: the handlers of a thrown error are called with the error
\* in the list, the handlers of a FAILED result are called with the list as it
\* was, and the list is still as it was after them, also when the run stops.
C25_AppendsOnlyThrown ==
  [][/\ (pc = "except" /\ pc' # "except" /\ HasHandleError(stages[current_stage])) =>
          /\ handled'.ran /\ handled'.error = raised
          /\ calls'.ran =>
                /\ calls'.error = raised
                /\ calls'.w.ctx.errors = Append(context.errors, raised)
          /\ handled'.ret = None => context'.errors = Append(context.errors, raised)
     /\ (pc = "check" /\ pc' # "check" /\ result.status = FAILED
           /\ HasHandleError(stages[current_stage])) =>
          /\ handled'.ran /\ handled'.error = result.error
          /\ calls'.ran =>
                /\ calls'.error = result.error
                /\ calls'.w.ctx.errors = context.errors
          /\ context'.errors = context.errors
    ]_vars

C25_Witness ==
  /\ Stopped
  /\ handled.ran /\ handled.error = "ValErr" /\ handled.ret = None
  /\ calls.ran /\ calls.w.ctx.errors = <<>>
  /\ context.errors = <<>>
  /\ start_counts # retry_counts

\* strategy i of the coordinator throws in can_recover or in recover
Throws(i) ==
  /\ strategies[i].kind = "Mock"
  /\ \/ strategies[i].can = "raise"
     \/ strategies[i].can = "yes" /\ strategies[i].rec = "raise"

\* C26: an exception of a strategy's can_recover or recover does not leave
\* ErrorHandler.handle_error; every later strategy is still evaluated, and the
\* result an earlier strategy gave is still returned.
C26_StrategyExceptionSwallowed ==
  (calls.ran /\ calls.error # None) =>
    \A i \in 1..Len(strategies) :
      Throws(i) =>
        /\ ~calls.exc
        /\ (strategies[i].can = "raise") = (i \notin SeqElems(calls.can))
        /\ \A j \in (i + 1)..Len(strategies) :
              Applies(strategies[j], j, calls.w) =>
                (j \in SeqElems(calls.can) /\ j \in SeqElems(calls.rec))
        /\ \A j \in 1..(i - 1) :
              (/\ Applies(strategies[j], j, calls.w)
               /\ Gives(strategies[j], j, calls.w) # None
               /\ \A k \in 1..(j - 1) : ~Applies(strategies[k], k, calls.w)
                                          \/ Gives(strategies[k], k, calls.w) = None)
                => calls.ret = Gives(strategies[j], j, calls.w)
        /\ (\A j \in 1..Len(strategies) : j # i =>
               ~Applies(strategies[j], j, calls.w) \/ Gives(strategies[j], j, calls.w) = None)
             => calls.ret = None

C26_Witness ==
  /\ strategies = <<Mock("yes", "A"), Mock("raise", "A"), Mock("yes", "B")>>
  /\ calls.ran /\ ~calls.exc
  /\ calls.can = <<1, 3>>
  /\ calls.ret = "A"

\* C27: Retry.recover counts the attempt of the stage name in every case;
\* with a stage_input_data it returns it and sets retry_attempt to the new
\* counter value and recovery_strategy to the strategy's name; without one it
\* returns null and writes no key.
C27_RetryRecover ==
  (calls.ran /\ calls.op = "recover" /\ strategies[1].kind = "Retry") =>
    LET before == calls.w
        after == calls.after
        name == StageNameIn(before)
        counter == DictGet(before.retry[1], name, 0) + 1
    IN  /\ ~calls.exc
        /\ after.retry[1] = DictSet(before.retry[1], name, counter)
        /\ after.files = before.files
        /\ after.ctx.errors = before.ctx.errors
        /\ InputIn(before) # None =>
              /\ calls.ret = InputIn(before)
              /\ DOMAIN after.ctx.data =
                   DOMAIN before.ctx.data \cup {"retry_attempt", "recovery_strategy"}
              /\ after.ctx.data["retry_attempt"] = counter
              /\ after.ctx.data["recovery_strategy"] = "RetryStrategy"
              /\ \A key \in DOMAIN before.ctx.data :
                    key \notin {"retry_attempt", "recovery_strategy"}
                      => after.ctx.data[key] = before.ctx.data[key]
        /\ InputIn(before) = None =>
              /\ calls.ret = None
              /\ after.ctx = before.ctx

C27_Witness ==
  /\ calls.ran /\ calls.op = "recover" /\ strategies[1].kind = "Retry"
  /\ InputIn(calls.w) = None
  /\ StageNameIn(calls.w) = "Content Generation"
  /\ calls.ret = None
  /\ DictGet(retry_counts[1], "Content Generation", 0) = 2
  /\ "retry_attempt" \notin DOMAIN context.data

\* C28: for every context, one without a "topic" key included,
\* FallbackContent.recover returns the template stored for the lowercased,
\* underscore-joined topic when there is one and null when there is none.
C28_FallbackRecover ==
  (calls.ran /\ strategies = <<Fallback>> /\ calls.op = "recover") =>
    LET topic == get_data(calls.w.ctx, "topic", None)
        stem == IF topic = None THEN None ELSE lower_underscore(topic)
    IN  /\ ~calls.exc
        /\ calls.ret = IF stem \in FallbackTemplates THEN TemplateContent(stem) ELSE None

\* ------------------------------------------- two execute calls on one Pipeline
\* Pipeline.context is an attribute of the instance: context.heap holds the
\* PipelineContext objects created so far and context.self is the one
\* self.context refers to. Every other variable that is a local of execute is a
\* pair, one entry per call. A call yields to the other one only at an await:
\* of process ("process"), of the observers ("notify") and of handle_error
\* ("retry" when it gave recovery data, "stop" when it gave none).
\*   writes[c]       the context call c created
\*   invocations[c]  the contexts call c handed to process
\*   notified[c]     the contexts call c handed to the observers
\*   calls[c]        the contexts call c handed to handle_error
\*   start_counts[c] the context call c returned
ExecuteCalls == {1, 2}

SelfContext == context.heap[context.self]

OverlapChains ==
  LET first == {Stage("A", k, f, h) : k \in {"MockFailingStage", "DataValidationStage"},
                                      f \in {0, 1, Forever},
                                      h \in {<<>>, <<"coordinator">>}}
      second == Stage("B", "MockFailingStage", 0, <<>>)
  IN  {<<a>> : a \in first} \cup {<<a, second>> : a \in first}

OverlapInit ==
  /\ stages \in OverlapChains
  /\ strategies = <<Retry(1)>>
  /\ observers = <<"ok">>
  /\ pc = <<"idle", "idle">>
  /\ runs = 0
  /\ context = [self |-> 1, heap |-> <<PipelineContext>>]
  /\ current_stage = <<0, 0>>
  /\ current_data = <<None, None>>
  /\ initial_data = <<None, None>>
  /\ result = <<NoResult, NoResult>>
  /\ raised = None
  /\ propagated = FALSE
  /\ attempt = [i \in 1..Len(stages) |-> 0]
  /\ last_result = [i \in 1..Len(stages) |-> NoResult]
  /\ retry_counts = <<EmptyDict>>
  /\ files = EmptyDict
  /\ now = 0
  /\ invocations = << <<>>, <<>> >>
  /\ notified = << <<>>, <<>> >>
  /\ calls = << <<>>, <<>> >>
  /\ start_counts = <<0, 0>>
  /\ pipeline_config = EmptyDict
  /\ handled = NotHandled
  /\ writes = <<0, 0>>

OverlapFrame == UNCHANGED <<config, raised, propagated, files, now, handled>>

\* lines 135-138 by call c: the two keys are written into self.context and
\* process of stage k is invoked with self.context
OverlapDispatch(c, ctx, k, data) ==
  /\ context' = [ctx EXCEPT !.heap[ctx.self] =
                   set_data(set_data(@, "stage_input_data", data),
                            "current_stage_name", stages[k].name)]
  /\ invocations' = [invocations EXCEPT ![c] = Append(@, ctx.self)]
  /\ pc' = [pc EXCEPT ![c] = "process"]

\* lines 125-138: call c starts; the second call starts while the first one
\* is suspended at an await
OverlapExecute(c, data) ==
  /\ pc[c] = "idle"
  /\ c = 1 \/ pc[1] \in {"process", "notify", "retry", "stop"}
  /\ runs' = runs + 1
  /\ LET fresh == [self |-> Len(context.heap) + 1,
                   heap |-> Append(context.heap, Execute_new_context(SelfContext))]
     IN  /\ writes' = [writes EXCEPT ![c] = fresh.self]
         /\ OverlapDispatch(c, fresh, 1, data)
  /\ current_stage' = [current_stage EXCEPT ![c] = 1]
  /\ current_data' = [current_data EXCEPT ![c] = data]
  /\ initial_data' = [initial_data EXCEPT ![c] = data]
  /\ UNCHANGED <<result, attempt, last_result, retry_counts, notified, calls, start_counts>>
  /\ OverlapFrame

OverlapOutcome(c) ==
  process(stages[current_stage[c]], Min(attempt[current_stage[c]] + 1, MaxAttempt),
          current_data[c])

\* lines 144-149 and 165-175 by call c: handle_error is awaited with
\* self.context, after which the loop goes on or is left
OverlapHandleError(c, error, ctx) ==
  \E h \in {PipelineStage_handle_error(stages[current_stage[c]], strategies, error,
               [ctx |-> ctx, retry |-> retry_counts, files |-> files], now)} :
      /\ context' = [context EXCEPT !.heap[context.self] = h.w.ctx]
      /\ retry_counts' = h.w.retry
      /\ calls' = [calls EXCEPT ![c] = Append(@, context.self)]
      /\ current_data' =
           [current_data EXCEPT ![c] = Execute_after_handle_error(h.ret, @).data]
      /\ pc' = [pc EXCEPT ![c] =
                  IF Execute_after_handle_error(h.ret, current_data[c]).pc = "loop"
                  THEN "retry" ELSE "stop"]

\* lines 138-141: process of call c returns and the observers are awaited
OverlapProcessReturns(c) ==
  /\ pc[c] = "process"
  /\ OverlapOutcome(c).raised = None
  /\ attempt' = [attempt EXCEPT ![current_stage[c]] = Min(@ + 1, MaxAttempt)]
  /\ result' = [result EXCEPT ![c] = OverlapOutcome(c).result]
  /\ last_result' = [last_result EXCEPT ![current_stage[c]] = OverlapOutcome(c).result]
  /\ notified' = [notified EXCEPT ![c] =
                    @ \o [k \in 1..Len(Pipeline_notify_observers(observers).invoked)
                            |-> context.self]]
  /\ pc' = [pc EXCEPT ![c] = "notify"]
  /\ UNCHANGED <<runs, context, current_stage, current_data, initial_data, retry_counts,
                 invocations, calls, start_counts, writes>>
  /\ OverlapFrame

\* lines 138 and 160-165: process of call c throws
OverlapProcessRaises(c) ==
  /\ pc[c] = "process"
  /\ OverlapOutcome(c).raised # None
  /\ attempt' = [attempt EXCEPT ![current_stage[c]] = Min(@ + 1, MaxAttempt)]
  /\ OverlapHandleError(c, OverlapOutcome(c).raised,
                        add_error(SelfContext, OverlapOutcome(c).raised))
  /\ UNCHANGED <<runs, current_stage, initial_data, result, last_result, invocations,
                 notified, start_counts, writes>>
  /\ OverlapFrame

\* lines 143-144: the observers of call c are done, the result is FAILED
OverlapHandleFailed(c) ==
  /\ pc[c] = "notify"
  /\ result[c].status = FAILED
  /\ OverlapHandleError(c, result[c].error,
                        Execute_failed_status_context(SelfContext, result[c].error))
  /\ UNCHANGED <<runs, current_stage, initial_data, result, attempt, last_result,
                 invocations, notified, start_counts, writes>>
  /\ OverlapFrame

\* lines 152-158 and 181: the observers of call c are done, the result is not
\* FAILED
OverlapAdvance(c) ==
  /\ pc[c] = "notify"
  /\ result[c].status # FAILED
  /\ current_data' = [current_data EXCEPT ![c] = result[c].data]
  /\ IF current_stage[c] < Len(stages)
     THEN /\ current_stage' = [current_stage EXCEPT ![c] = @ + 1]
          /\ OverlapDispatch(c, context, current_stage[c] + 1, result[c].data)
          /\ UNCHANGED start_counts
     ELSE /\ current_stage' = [current_stage EXCEPT ![c] = 0]
          /\ start_counts' = [start_counts EXCEPT ![c] = context.self]
          /\ pc' = [pc EXCEPT ![c] = "done"]
          /\ UNCHANGED <<context, invocations>>
  /\ UNCHANGED <<runs, initial_data, result, attempt, last_result, retry_counts, notified,
                 calls, writes>>
  /\ OverlapFrame

\* lines 146-149 or 169-172: handle_error of call c gave recovery data
OverlapRetry(c) ==
  /\ pc[c] = "retry"
  /\ OverlapDispatch(c, context, current_stage[c], current_data[c])
  /\ UNCHANGED <<runs, current_stage, current_data, initial_data, result, attempt,
                 last_result, retry_counts, notified, calls, start_counts, writes>>
  /\ OverlapFrame

\* lines 150 or 175, and 181: handle_error of call c gave nothing, the call
\* returns self.context
OverlapStop(c) ==
  /\ pc[c] = "stop"
  /\ start_counts' = [start_counts EXCEPT ![c] = context.self]
  /\ pc' = [pc EXCEPT ![c] = "done"]
  /\ UNCHANGED <<runs, context, current_stage, current_data, initial_data, result, attempt,
                 last_result, retry_counts, invocations, notified, calls, writes>>
  /\ OverlapFrame

OverlapNext ==
  \E c \in ExecuteCalls :
    \/ \E d \in Data : OverlapExecute(c, d)
    \/ OverlapProcessReturns(c)
    \/ OverlapProcessRaises(c)
    \/ OverlapHandleFailed(c)
    \/ OverlapAdvance(c)
    \/ OverlapRetry(c)
    \/ OverlapStop(c)

SpecOverlap == OverlapInit /\ [][OverlapNext]_vars

\* C29: when two execute calls on one Pipeline overlap, every context a call
\* hands to process, to the observers and to handle_error is the context that
\* call created, and the call returns that context.
C29_CallsIsolated ==
  \A c \in ExecuteCalls :
    writes[c] # 0 =>
      /\ \A k \in 1..Len(invocations[c]) : invocations[c][k] = writes[c]
      /\ \A k \in 1..Len(notified[c]) : notified[c][k] = writes[c]
      /\ \A k \in 1..Len(calls[c]) : calls[c][k] = writes[c]
      /\ pc[c] = "done" => start_counts[c] = writes[c]

\* ------------------------------------------------------- OpenAIRateLimiter
\* openai_client.py lines 20-40, one caller awaiting one call after the other.
\*   pipeline_config  max_requests and time_window of the limiter
\*   writes           self.requests
\*   now              time.time(), in whole time units
\*   pc               "ready", or "sleeping" inside asyncio.sleep
\*   attempt          the local now of the call in progress
\*   start_counts     the time asyncio.sleep is due to return
\*   calls            the times at which the last max_requests + 1 calls returned
\*   handled          the last call: whether it found the limit reached and slept
LimiterSettings ==
  {[max_requests |-> m, time_window |-> w] : m \in {1, 2}, w \in {2, 3}}

NoLimiterCall == [ran |-> FALSE, recorded |-> 0, slept |-> FALSE]

LimiterInit ==
  /\ stages = <<>>
  /\ strategies = <<>>
  /\ observers = <<>>
  /\ pc = "ready"
  /\ runs = 0
  /\ context = PipelineContext
  /\ current_stage = 0
  /\ current_data = None
  /\ initial_data = None
  /\ result = NoResult
  /\ raised = None
  /\ propagated = FALSE
  /\ attempt = 0
  /\ last_result = <<>>
  /\ retry_counts = <<>>
  /\ files = EmptyDict
  /\ now = 0
  /\ invocations = <<>>
  /\ notified = <<>>
  /\ calls = <<>>
  /\ start_counts = 0
  /\ pipeline_config \in LimiterSettings
  /\ handled = NoLimiterCall
  /\ writes = <<>>

LimiterFrame ==
  UNCHANGED <<config, runs, context, current_stage, current_data, initial_data, result,
              raised, propagated, last_result, retry_counts, files, invocations, notified>>

\* line 31: the requests younger than time_window at time t
RecentRequests(requests, t, time_window) ==
  SelectSeq(requests, LAMBDA req_time : t - req_time < time_window)

\* the call returns: the caller sees it return at time t
Returned(log, t, max_requests) ==
  LET all == Append(log, t)
  IN  IF Len(all) > max_requests + 1 THEN Tail(all) ELSE all

\* lines 29-40 up to the await: now is read, old requests are dropped, and
\* with the list full the call sleeps until the oldest request leaves the window
WaitIfNeeded ==
  /\ pc = "ready"
  /\ LET recent == RecentRequests(writes, now, pipeline_config.time_window)
         sleep_time == recent[1] + pipeline_config.time_window - now
     IN  IF Len(recent) >= pipeline_config.max_requests
         THEN IF sleep_time > 0
              THEN /\ writes' = recent
                   /\ attempt' = now
                   /\ start_counts' = now + sleep_time
                   /\ pc' = "sleeping"
                   /\ handled' = [ran |-> TRUE, recorded |-> Len(recent), slept |-> TRUE]
                   /\ calls' = calls
              ELSE /\ writes' = Append(Tail(recent), now)
                   /\ handled' = [ran |-> TRUE, recorded |-> Len(recent), slept |-> FALSE]
                   /\ calls' = Returned(calls, now, pipeline_config.max_requests)
                   /\ UNCHANGED <<attempt, start_counts, pc>>
         ELSE /\ writes' = Append(recent, now)
              /\ handled' = [ran |-> TRUE, recorded |-> Len(recent), slept |-> FALSE]
              /\ calls' = Returned(calls, now, pipeline_config.max_requests)
              /\ UNCHANGED <<attempt, start_counts, pc>>
  /\ now' = now
  /\ LimiterFrame

\* lines 37-40: asyncio.sleep returns, not before it is due; the oldest request
\* is dropped and the now read at line 29 is appended
WakeUp ==
  /\ pc = "sleeping"
  /\ now >= start_counts
  /\ writes' = Append(Tail(writes), attempt)
  /\ calls' = Returned(calls, now, pipeline_config.max_requests)
  /\ pc' = "ready"
  /\ UNCHANGED <<now, attempt, start_counts, handled>>
  /\ LimiterFrame

\* time passes
LimiterTick ==
  /\ now < MaxTime
  /\ now' = now + 1
  /\ UNCHANGED <<pc, attempt, start_counts, handled, writes, calls>>
  /\ LimiterFrame

LimiterNext == WaitIfNeeded \/ WakeUp \/ LimiterTick

SpecLimiter == LimiterInit /\ [][LimiterNext]_vars

\* a call that finds max_requests requests within the window sleeps
C30_SleepsAtLimit ==
  (handled.ran /\ handled.recorded >= pipeline_config.max_requests) => handled.slept

\* self.requests never holds more than max_requests entries
C30_ListBounded == Len(writes) <= pipeline_config.max_requests

\* no max_requests + 1 calls return within less than time_window
C30_WindowBound ==
  Len(calls) = pipeline_config.max_requests + 1
    => calls[Len(calls)] - calls[1] >= pipeline_config.time_window

\* C30: wait_if_needed sleeps when max_requests requests are recorded within
\* the last time_window, the recorded list never holds more than max_requests
\* entries, and in every interval of length time_window at most max_requests
\* calls return.
C30_RateLimited ==
  /\ C30_SleepsAtLimit
  /\ C30_ListBounded
  /\ C30_WindowBound

====
